---------------------------- MODULE Spec2Model ----------------------------
(***************************************************************************)
(* The payments engine of payments-engine/: the ledger of libpayments     *)
(* (client.rs: Client::calculate_state, which replays a client's whole     *)
(* transaction list; transaction.rs: Transaction::process, which applies   *)
(* one transaction to a running state given a log) and the registry of     *)
(* engine/src/main.rs, which groups the input records by client id.        *)
(*                                                                         *)
(* Amounts are f32 in the source.  They are modelled by the integer-valued *)
(* f32 numbers: an Int of the model stands for the f32 of the same value,  *)
(* and every += and -= rounds its exact result to 24 significant bits,     *)
(* ties to even, as IEEE-754 single precision does.                        *)
(***************************************************************************)
EXTENDS Integers, Sequences, FiniteSets

VARIABLES
    client,    \* ledger harness: the Client (id, transactions) of client.rs
    log,       \* ledger harness: the same history as transaction.rs records
    state,     \* ledger harness: the running ClientState of Transaction::process
    snapshots, \* ledger harness: calculate_state's state after each iteration
    history,   \* ledger harness: the value of state after each record
    input,     \* engine: the records deserialized so far, in arrival order
    clients,   \* engine: HashMap<u16, Client> of process_records
    pc,        \* engine: "reading", "writing", "done" or "failed"
    out        \* engine: the ClientState serialized for each client so far

vars == <<client, log, state, snapshots, history, input, clients, pc, out>>

---------------------------------------------------------------------------
(* Bounds of the model. *)

\* Longest client history the ledger harness builds.
MaxLog == 4
\* Longest history over a single transaction id (the life of one dispute).
MaxLife == 5
\* Transaction ids are 1..MaxTx.
MaxTx == 2
\* Longest input stream the engine reads.
MaxInput == 2
\* Client ids of the input stream are 1..MaxClient.
MaxClient == 2

TxIds == 1..MaxTx
\* The ids of the histories over a single transaction id.
OneTx == {1}
ClientIds == 1..MaxClient

\* 2^24: above it an f32 no longer holds every integer.
F32_MANTISSA == 16777216

\* The amounts of the Deposit and Withdrawal records: a small one, and one
\* just above 2^24, where f32 addition and subtraction round.
Amounts == {1, F32_MANTISSA + 2}

\* The id of the client the ledger harness builds (the id the tests use).
TestClient == 1

---------------------------------------------------------------------------
(* f32 arithmetic on integer-valued operands. *)

Abs(x) == IF x < 0 THEN -x ELSE x

RECURSIVE F32Ulp(_)
\* The spacing of the f32 numbers around a magnitude ax >= 0.
F32Ulp(ax) == IF ax < F32_MANTISSA THEN 1 ELSE 2 * F32Ulp(ax \div 2)

\* Round to nearest f32, ties to the even significand.
F32Round(x) ==
    LET ax == Abs(x)
        u == F32Ulp(ax)
        q == ax \div u
        r == ax % u
        m == IF 2 * r < u THEN q * u
             ELSE IF 2 * r > u THEN (q + 1) * u
             ELSE IF q % 2 = 0 THEN q * u ELSE (q + 1) * u
    IN  IF x < 0 THEN -m ELSE m

\* a + b and a - b on f32.
F32Add(a, b) == F32Round(a + b)
F32Sub(a, b) == F32Round(a - b)

---------------------------------------------------------------------------
(* Records. *)

\* TransactionType, in its serialized (lowercase) form.
Deposit == "deposit"
Withdrawal == "withdrawal"
Dispute == "dispute"
Resolve == "resolve"
Chargeback == "chargeback"

\* Option<T>: None is the empty sequence, Some(x) the sequence <<x>>.
None == <<>>
Some(x) == <<x>>
IsSome(o) == o # <<>>
Unwrap(o) == o[1]

\* client.rs' Transaction: amount is an f32 (0.0 on the referencing kinds).
ClientTransaction(type, c, tx, amount) ==
    [type |-> type, client |-> c, tx |-> tx, amount |-> amount]

\* transaction.rs' Transaction: amount is an Option<f32>.
Transaction(type, c, tx, amount) ==
    [type |-> type, client |-> c, tx |-> tx, amount |-> amount]

\* The ClientState of calculate_state's first statement.
NewClientState(id) ==
    [id |-> id, available |-> 0, held |-> 0, total |-> 0, locked |-> FALSE]

Min(S) == CHOOSE x \in S : \A y \in S : x <= y

\* Iterator::find on a sequence: the first element among those at the
\* positions hits, the positions whose element satisfies the closure.
Find(seq, hits) ==
    IF hits = {} THEN None ELSE Some(seq[Min(hits)])

---------------------------------------------------------------------------
(* client.rs: Client. *)

Client_new(id) == [id |-> id, transactions |-> <<>>]

Client_with_transactions(self, transactions) ==
    [self EXCEPT !.transactions = transactions]

Client_add_transaction(self, transaction) ==
    [self EXCEPT !.transactions = Append(@, transaction)]

Client_find_transaction(self, tx) ==
    LET ts == self.transactions
        hits == {i \in 1..Len(ts) :
                    (ts[i].type = Withdrawal \/ ts[i].type = Deposit)
                    /\ ts[i].tx = tx}
    IN  Find(self.transactions, hits)

Client_find_dispute(self, tx) ==
    LET ts == self.transactions
        hits == {i \in 1..Len(ts) : ts[i].type = Dispute /\ ts[i].tx = tx}
    IN  Find(self.transactions, hits)

Client_process_withdrawal(self, transaction, st) ==
    IF st.available >= transaction.amount
    THEN [st EXCEPT !.available = F32Sub(@, transaction.amount),
                    !.total = F32Sub(@, transaction.amount)]
    ELSE st

\* A deposit that builds its result afresh and so forgets the lock.
Client_process_deposit_Unlocking(self, transaction, st) ==
    [st EXCEPT !.available = F32Add(@, transaction.amount),
               !.total = F32Add(@, transaction.amount),
               !.locked = FALSE]

Client_process_deposit(self, transaction, st) ==
    [st EXCEPT !.available = F32Add(@, transaction.amount),
               !.total = F32Add(@, transaction.amount)]

\* A dispute that holds a Deposit's amount only when available covers it.
Client_process_dispute_Checked(self, transaction, st) ==
    LET found == Client_find_transaction(self, transaction.tx)
    IN  IF IsSome(found)
        THEN LET disputed_transaction == Unwrap(found)
             IN  IF disputed_transaction.type = Withdrawal
                 THEN [st EXCEPT
                         !.available = F32Sub(@, -disputed_transaction.amount),
                         !.held = F32Add(@, -disputed_transaction.amount)]
                 ELSE IF /\ disputed_transaction.type = Deposit
                         /\ st.available >= disputed_transaction.amount
                 THEN [st EXCEPT
                         !.available = F32Sub(@, disputed_transaction.amount),
                         !.held = F32Add(@, disputed_transaction.amount)]
                 ELSE st
        ELSE st

Client_process_dispute(self, transaction, st) ==
    LET found == Client_find_transaction(self, transaction.tx)
    IN  IF IsSome(found)
        THEN LET disputed_transaction == Unwrap(found)
             IN  IF disputed_transaction.type = Withdrawal
                 THEN [st EXCEPT
                         !.available = F32Sub(@, -disputed_transaction.amount),
                         !.held = F32Add(@, -disputed_transaction.amount)]
                 ELSE IF disputed_transaction.type = Deposit
                 THEN [st EXCEPT
                         !.available = F32Sub(@, disputed_transaction.amount),
                         !.held = F32Add(@, disputed_transaction.amount)]
                 ELSE st
        ELSE st

Client_process_resolve(self, transaction, st) ==
    LET disputed_transaction == Client_find_transaction(self, transaction.tx)
        pending_dispute == Client_find_dispute(self, transaction.tx)
    IN  IF IsSome(disputed_transaction) /\ IsSome(pending_dispute)
        THEN [st EXCEPT
                !.held = F32Sub(@, Unwrap(disputed_transaction).amount),
                !.available = F32Add(@, Unwrap(disputed_transaction).amount)]
        ELSE st

Client_process_chargeback(self, transaction, st) ==
    LET disputed_transaction == Client_find_transaction(self, transaction.tx)
        pending_dispute == Client_find_dispute(self, transaction.tx)
    IN  IF IsSome(disputed_transaction) /\ IsSome(pending_dispute)
        THEN [st EXCEPT
                !.held = F32Sub(@, Unwrap(disputed_transaction).amount),
                !.total = F32Sub(@, Unwrap(disputed_transaction).amount),
                !.locked = TRUE]
        ELSE st

\* One iteration of calculate_state's loop: the match on the record's type.
Client_apply(self, transaction, st) ==
    CASE transaction.type = Deposit ->
             Client_process_deposit(self, transaction, st)
      [] transaction.type = Withdrawal ->
             Client_process_withdrawal(self, transaction, st)
      [] transaction.type = Dispute ->
             Client_process_dispute(self, transaction, st)
      [] transaction.type = Resolve ->
             Client_process_resolve(self, transaction, st)
      [] transaction.type = Chargeback ->
             Client_process_chargeback(self, transaction, st)

RECURSIVE Client_calculate_state_after(_, _)
\* calculate_state's state after the first k iterations of its loop over
\* self.transactions (the lookups of an iteration see the whole list).
Client_calculate_state_after(self, k) ==
    IF k = 0
    THEN NewClientState(self.id)
    ELSE Client_apply(self, self.transactions[k],
                      Client_calculate_state_after(self, k - 1))

Client_calculate_state(self) ==
    Client_calculate_state_after(self, Len(self.transactions))

---------------------------------------------------------------------------
(* transaction.rs: Transaction::process and its lookups. *)

\* A lookup that takes the first Deposit or Withdrawal, whatever its tx id.
find_transaction_AnyTx(lg, tx) ==
    LET hits == {i \in 1..Len(lg) :
                    lg[i].type = Withdrawal \/ lg[i].type = Deposit}
    IN  Find(lg, hits)

find_transaction(lg, tx) ==
    LET hits == {i \in 1..Len(lg) :
                    (lg[i].type = Withdrawal \/ lg[i].type = Deposit)
                    /\ lg[i].tx = tx}
    IN  Find(lg, hits)

find_dispute(lg, tx) ==
    LET hits == {i \in 1..Len(lg) : lg[i].type = Dispute /\ lg[i].tx = tx}
    IN  Find(lg, hits)

find_resolve(lg, tx) ==
    LET hits == {i \in 1..Len(lg) : lg[i].type = Resolve /\ lg[i].tx = tx}
    IN  Find(lg, hits)

find_chargeback(lg, tx) ==
    LET hits == {i \in 1..Len(lg) : lg[i].type = Chargeback /\ lg[i].tx = tx}
    IN  Find(lg, hits)

\* A withdrawal without the sufficient-funds comparison.
process_withdrawal_Unchecked(self, st) ==
    IF IsSome(self.amount)
    THEN [st EXCEPT !.available = F32Sub(@, Unwrap(self.amount)),
                    !.total = F32Sub(@, Unwrap(self.amount))]
    ELSE st

process_withdrawal(self, st) ==
    IF IsSome(self.amount) /\ st.available >= Unwrap(self.amount)
    THEN [st EXCEPT !.available = F32Sub(@, Unwrap(self.amount)),
                    !.total = F32Sub(@, Unwrap(self.amount))]
    ELSE st

process_deposit(self, st) ==
    IF IsSome(self.amount)
    THEN [st EXCEPT !.available = F32Add(@, Unwrap(self.amount)),
                    !.total = F32Add(@, Unwrap(self.amount))]
    ELSE st

\* A dispute that holds the amount of a Withdrawal as it does a Deposit's.
process_dispute_Symmetric(self, st, lg) ==
    LET found == find_transaction(lg, self.tx)
    IN  IF IsSome(found) /\ IsSome(Unwrap(found).amount)
        THEN LET amount == Unwrap(Unwrap(found).amount)
             IN  [st EXCEPT !.available = F32Sub(@, amount),
                            !.held = F32Add(@, amount)]
        ELSE st

process_dispute(self, st, lg) ==
    LET found == find_transaction(lg, self.tx)
    IN  IF IsSome(found) /\ IsSome(Unwrap(found).amount)
        THEN LET disputed_transaction == Unwrap(found)
                 amount == Unwrap(disputed_transaction.amount)
             IN  IF disputed_transaction.type = Withdrawal
                 THEN [st EXCEPT !.available = F32Add(@, amount),
                                 !.held = F32Sub(@, amount)]
                 ELSE IF disputed_transaction.type = Deposit
                 THEN [st EXCEPT !.available = F32Sub(@, amount),
                                 !.held = F32Add(@, amount)]
                 ELSE st
        ELSE st

\* A resolve that also credits the released amount to total.
process_resolve_Crediting(self, st, lg) ==
    LET found == find_transaction(lg, self.tx)
        pending_dispute == find_dispute(lg, self.tx)
        prior_chargeback == find_chargeback(lg, self.tx)
    IN  IF /\ IsSome(found)
           /\ IsSome(pending_dispute) /\ ~IsSome(prior_chargeback)
           /\ IsSome(Unwrap(found).amount)
        THEN LET amount == Unwrap(Unwrap(found).amount)
             IN  [st EXCEPT !.held = F32Sub(@, amount),
                            !.available = F32Add(@, amount),
                            !.total = F32Add(@, amount)]
        ELSE st

process_resolve(self, st, lg) ==
    LET found == find_transaction(lg, self.tx)
        pending_dispute == find_dispute(lg, self.tx)
        prior_chargeback == find_chargeback(lg, self.tx)
    IN  IF /\ IsSome(found)
           /\ IsSome(pending_dispute) /\ ~IsSome(prior_chargeback)
           /\ IsSome(Unwrap(found).amount)
        THEN LET disputed_transaction == Unwrap(found)
                 amount == Unwrap(disputed_transaction.amount)
             IN  IF disputed_transaction.type = Withdrawal
                 THEN [st EXCEPT !.held = F32Add(@, amount),
                                 !.available = F32Sub(@, amount)]
                 ELSE IF disputed_transaction.type = Deposit
                 THEN [st EXCEPT !.held = F32Sub(@, amount),
                                 !.available = F32Add(@, amount)]
                 ELSE st
        ELSE st

process_chargeback(self, st, lg) ==
    LET found == find_transaction(lg, self.tx)
        pending_dispute == find_dispute(lg, self.tx)
        prior_resolve == find_resolve(lg, self.tx)
    IN  IF /\ IsSome(found)
           /\ IsSome(pending_dispute) /\ ~IsSome(prior_resolve)
           /\ IsSome(Unwrap(found).amount)
        THEN LET disputed_transaction == Unwrap(found)
                 amount == Unwrap(disputed_transaction.amount)
                 moved ==
                     IF disputed_transaction.type = Withdrawal
                     THEN [st EXCEPT !.held = F32Add(@, amount),
                                     !.total = F32Add(@, amount)]
                     ELSE IF disputed_transaction.type = Deposit
                     THEN [st EXCEPT !.held = F32Sub(@, amount),
                                     !.total = F32Sub(@, amount)]
                     ELSE st
             IN  [moved EXCEPT !.locked = TRUE]
        ELSE st

process(self, st, lg) ==
    CASE self.type = Deposit -> process_deposit(self, st)
      [] self.type = Withdrawal -> process_withdrawal(self, st)
      [] self.type = Dispute -> process_dispute(self, st, lg)
      [] self.type = Resolve -> process_resolve(self, st, lg)
      [] self.type = Chargeback -> process_chargeback(self, st, lg)

\* One iteration of client::calc_state, whose body is not in the sources:
\* a transaction is applied against the transactions before it, and nothing
\* is applied once the state is locked (transaction.rs' tests
\* test_ignore_dispute_before_transaction and test_ignore_after_chargeback).
calc_state_step(st, transaction, before) ==
    IF st.locked THEN st ELSE process(transaction, st, before)

RECURSIVE calc_state(_)
calc_state(transactions) ==
    IF transactions = <<>>
    THEN NewClientState(TestClient)
    ELSE LET before == SubSeq(transactions, 1, Len(transactions) - 1)
         IN  calc_state_step(calc_state(before),
                             transactions[Len(transactions)], before)

---------------------------------------------------------------------------
(* The ledger harness: one client's history grows a record at a time, as   *)
(* the tests build it; client holds it as client.rs' records, log as       *)
(* transaction.rs' records, and state is calc_state of the log.            *)

\* Deposit and Withdrawal ids are unique within a client's history: the
\* k-th such record of a history carries the id k.  The code compares ids
\* for equality only, so every history with unique ids is one of these up
\* to renaming; a reference may name any id, used already, used later or never.
NextTx(transactions) ==
    1 + Cardinality({i \in 1..Len(transactions) :
                        transactions[i].type \in {Deposit, Withdrawal}})

\* A record joins the history, as either revision's type: client.rs'
\* add_transaction, and one more iteration of calc_state.
AddRecord(type, tx, amount, option) ==
    /\ client' = Client_add_transaction(
                     client, ClientTransaction(type, TestClient, tx, amount))
    /\ log' = Append(log, Transaction(type, TestClient, tx, option))
    /\ state' = calc_state_step(
                    state, Transaction(type, TestClient, tx, option), log)
    /\ snapshots' = [k \in 0..Len(log') |->
                         Client_calculate_state_after(client', k)]
    /\ history' = [k \in 0..Len(log') |->
                       IF k < Len(log') THEN history[k] ELSE state']
    /\ UNCHANGED <<input, clients, pc, out>>

AddDeposit(ids, max) ==
    \E a \in Amounts :
        /\ Len(log) < max
        /\ NextTx(log) \in ids
        /\ AddRecord(Deposit, NextTx(log), a, Some(a))

AddWithdrawal(ids, max) ==
    \E a \in Amounts :
        /\ Len(log) < max
        /\ NextTx(log) \in ids
        /\ AddRecord(Withdrawal, NextTx(log), a, Some(a))

AddDispute(ids, max) ==
    \E tx \in ids :
        /\ Len(log) < max
        /\ AddRecord(Dispute, tx, 0, None)

AddResolve(ids, max) ==
    \E tx \in ids :
        /\ Len(log) < max
        /\ AddRecord(Resolve, tx, 0, None)

AddChargeback(ids, max) ==
    \E tx \in ids :
        /\ Len(log) < max
        /\ AddRecord(Chargeback, tx, 0, None)

Init ==
    /\ client = Client_new(TestClient)
    /\ log = <<>>
    /\ state = NewClientState(TestClient)
    /\ snapshots = [k \in {0} |-> NewClientState(TestClient)]
    /\ history = [k \in {0} |-> NewClientState(TestClient)]
    /\ input = <<>>
    /\ clients = [c \in {} |-> Client_new(c)]
    /\ pc = "reading"
    /\ out = [c \in {} |-> NewClientState(c)]

Next ==
    \/ AddDeposit(TxIds, MaxLog)
    \/ AddWithdrawal(TxIds, MaxLog)
    \/ AddDispute(TxIds, MaxLog)
    \/ AddResolve(TxIds, MaxLog)
    \/ AddChargeback(TxIds, MaxLog)

Spec == Init /\ [][Next]_vars

\* The histories over a single transaction id, which may be longer.
NextOneTx ==
    \/ AddDeposit(OneTx, MaxLife)
    \/ AddWithdrawal(OneTx, MaxLife)
    \/ AddDispute(OneTx, MaxLife)
    \/ AddResolve(OneTx, MaxLife)
    \/ AddChargeback(OneTx, MaxLife)

SpecOneTx == Init /\ [][NextOneTx]_vars

---------------------------------------------------------------------------
(* engine/src/main.rs: process_records groups the records of the input     *)
(* stream by client id; output_record_states serializes each client's      *)
(* calculate_state.                                                        *)

\* The records the reader can deserialize next for client c: Deposit and
\* Withdrawal ids are unique within a client (two clients may use the same).
NextRecords(c) ==
    LET seen == IF c \in DOMAIN clients THEN clients[c].transactions ELSE <<>>
    IN  {ClientTransaction(type, c, tx, a) :
             type \in {Deposit, Withdrawal},
             tx \in {NextTx(seen)} \cap TxIds, a \in Amounts}
        \cup {ClientTransaction(type, c, tx, 0) :
                  type \in {Dispute, Resolve, Chargeback}, tx \in TxIds}

\* HashMap::insert.
Insert(map, key, value) ==
    [k \in DOMAIN map \cup {key} |-> IF k = key THEN value ELSE map[k]]

\* A push that puts the record at the front of the client's list.
PushRecord_Front ==
    \E c \in ClientIds : \E record \in NextRecords(c) :
        /\ pc = "reading"
        /\ Len(input) < MaxInput
        /\ record.client \in DOMAIN clients
        /\ input' = Append(input, record)
        /\ clients' = [clients EXCEPT ![record.client].transactions =
                                          <<record>> \o @]
        /\ UNCHANGED <<client, log, state, snapshots, history, pc, out>>

\* process_records' loop body, the arm Some(client): push on its list.
PushRecord ==
    \E c \in ClientIds : \E record \in NextRecords(c) :
        /\ pc = "reading"
        /\ Len(input) < MaxInput
        /\ record.client \in DOMAIN clients
        /\ input' = Append(input, record)
        /\ clients' = [clients EXCEPT ![record.client].transactions =
                                          Append(@, record)]
        /\ UNCHANGED <<client, log, state, snapshots, history, pc, out>>

\* process_records' loop body, the arm None: a new Client with this record.
InsertClient ==
    \E c \in ClientIds : \E record \in NextRecords(c) :
        /\ pc = "reading"
        /\ Len(input) < MaxInput
        /\ record.client \notin DOMAIN clients
        /\ input' = Append(input, record)
        /\ clients' = Insert(clients, record.client,
                             Client_with_transactions(
                                 Client_new(record.client), <<record>>))
        /\ UNCHANGED <<client, log, state, snapshots, history, pc, out>>

\* The reader yields an Err: process_records returns it and main panics.
DecodeError ==
    /\ pc = "reading"
    /\ pc' = "failed"
    /\ UNCHANGED <<client, log, state, snapshots, history, input, clients, out>>

\* The reader is exhausted: process_records returns Ok(clients).
EndOfInput ==
    /\ pc = "reading"
    /\ pc' = "writing"
    /\ UNCHANGED <<client, log, state, snapshots, history, input, clients, out>>

\* An output that replays one ledger shared by all clients.
OutputRecordStates_SharedLedger ==
    /\ pc = "writing"
    /\ out' = [c \in DOMAIN clients |->
                   Client_calculate_state(
                       Client_with_transactions(Client_new(c), input))]
    /\ pc' = "done"
    /\ UNCHANGED <<client, log, state, snapshots, history, input, clients>>

\* An output that leaves out the clients whose state is still the fresh one.
OutputRecordStates_SkipEmpty ==
    /\ pc = "writing"
    /\ out' = [c \in {d \in DOMAIN clients :
                          Client_calculate_state(clients[d])
                              # NewClientState(d)} |->
                   Client_calculate_state(clients[c])]
    /\ pc' = "done"
    /\ UNCHANGED <<client, log, state, snapshots, history, input, clients>>

\* output_record_states: one ClientState for each value of the map.
OutputRecordStates ==
    /\ pc = "writing"
    /\ out' = [c \in DOMAIN clients |-> Client_calculate_state(clients[c])]
    /\ pc' = "done"
    /\ UNCHANGED <<client, log, state, snapshots, history, input, clients>>

NextEngine ==
    \/ PushRecord
    \/ InsertClient
    \/ DecodeError
    \/ EndOfInput
    \/ OutputRecordStates

SpecEngine == Init /\ [][NextEngine]_vars

---------------------------------------------------------------------------
(* Vocabulary of the properties. *)

\* The account state after the first k records of the harness' history:
\* inside calculate_state's loop over the whole history (client.rs), and
\* as calc_state of the prefix (transaction.rs).
AfterClient(k) == snapshots[k]
AfterLog(k) == history[k]

Steps == 1..Len(log)

Balances(st) == <<st.available, st.held, st.total>>

References == {Dispute, Resolve, Chargeback}

\* The tx id occurs on a Deposit or Withdrawal among the first k records.
SeenBefore(k, tx) ==
    \E i \in 1..k : log[i].type \in {Deposit, Withdrawal} /\ log[i].tx = tx

\* The first Deposit or Withdrawal record of the history with this tx id.
Original(tx) ==
    log[Min({i \in Steps :
                log[i].type \in {Deposit, Withdrawal} /\ log[i].tx = tx})]

RECURSIVE DisputeStatus(_, _)
\* The dispute status of a tx id after the first k records, as the records
\* themselves define it: "None", "Disputed" (open), "Resolved", "Chargedback".
DisputeStatus(k, tx) ==
    IF k = 0 THEN "None"
    ELSE LET prev == DisputeStatus(k - 1, tx)
             t == log[k]
         IN  IF t.tx # tx \/ ~SeenBefore(k - 1, tx) THEN prev
             ELSE IF t.type = Dispute /\ prev \in {"None", "Resolved"}
                  THEN "Disputed"
             ELSE IF t.type = Resolve /\ prev = "Disputed" THEN "Resolved"
             ELSE IF t.type = Chargeback /\ prev = "Disputed"
                  THEN "Chargedback"
             ELSE prev

---------------------------------------------------------------------------
(* C1..C10. *)

Conserved(st) == st.total = F32Add(st.available, st.held)

\* C1: conservation.  After every prefix of every client history the
\* account state satisfies total == available + held (the sum as the
\* program computes it, on f32), under calculate_state and under process.
C1_Conservation ==
    \A k \in 0..Len(log) : Conserved(AfterClient(k)) /\ Conserved(AfterLog(k))

\* C2: terminal lock.  Once the account is locked after some prefix, every
\* later record of the history is skipped: available, held and total stay
\* what they were right after the chargeback.
C2_TerminalLock ==
    \A k \in 0..Len(log) : \A j \in k..Len(log) :
        /\ AfterClient(k).locked =>
               Balances(AfterClient(j)) = Balances(AfterClient(k))
        /\ AfterLog(k).locked => Balances(AfterLog(j)) = Balances(AfterLog(k))

\* C3: forward-reference rejection.  A Dispute, Resolve or Chargeback whose
\* tx id has not occurred on an earlier Deposit or Withdrawal leaves the
\* account state unchanged, also when such a record follows later.
C3_ForwardReference ==
    \A k \in Steps :
        (log[k].type \in References /\ ~SeenBefore(k - 1, log[k].tx)) =>
            /\ AfterClient(k) = AfterClient(k - 1)
            /\ AfterLog(k) = AfterLog(k - 1)

\* C4: a Resolve or Chargeback of a tx id with no open dispute (never
\* disputed, or the dispute already closed) changes nothing.
C4_NoOpenDispute ==
    \A k \in Steps :
        (/\ log[k].type \in {Resolve, Chargeback}
         /\ DisputeStatus(k - 1, log[k].tx) # "Disputed") =>
            /\ AfterClient(k) = AfterClient(k - 1)
            /\ AfterLog(k) = AfterLog(k - 1)

\* C5: a Dispute of a tx id whose dispute is already open changes nothing:
\* the amount moves between available and held once per open dispute.
C5_DisputeOnce ==
    \A k \in Steps :
        (log[k].type = Dispute /\ DisputeStatus(k - 1, log[k].tx) = "Disputed")
            => /\ AfterClient(k) = AfterClient(k - 1)
               /\ AfterLog(k) = AfterLog(k - 1)

\* The amount of the Deposit or Withdrawal that record k refers to.
ReferredAmount(k) == Unwrap(Original(log[k].tx).amount)

\* The dispute of the tx id is open after k records and was resolved before.
Reopened(k, tx) ==
    /\ DisputeStatus(k, tx) = "Disputed"
    /\ \E i \in 1..k : DisputeStatus(i, tx) = "Resolved"

\* C6: re-opening.  After Deposit, Dispute, Resolve of a tx id a further
\* Dispute is applied (the amount is held again), and the re-opened dispute
\* is closed by a Resolve, which restores the funds, or by a Chargeback,
\* which takes the amount from held and total and locks the account.
C6_Reopen ==
    \A k \in Steps :
        LET t == log[k]
            b == AfterLog(k - 1)
            a == AfterLog(k)
        IN  (/\ SeenBefore(k - 1, t.tx)
             /\ Original(t.tx).type = Deposit
             /\ ~b.locked) =>
                /\ (t.type = Dispute /\ DisputeStatus(k - 1, t.tx) = "Resolved")
                     => a = [b EXCEPT
                               !.available = F32Sub(@, ReferredAmount(k)),
                               !.held = F32Add(@, ReferredAmount(k))]
                /\ (t.type = Resolve /\ Reopened(k - 1, t.tx))
                     => a = [b EXCEPT
                               !.held = F32Sub(@, ReferredAmount(k)),
                               !.available = F32Add(@, ReferredAmount(k))]
                /\ (t.type = Chargeback /\ Reopened(k - 1, t.tx))
                     => a = [b EXCEPT
                               !.held = F32Sub(@, ReferredAmount(k)),
                               !.total = F32Sub(@, ReferredAmount(k)),
                               !.locked = TRUE]

\* C7: the locked flag is monotonic.  Once the account state is locked
\* after some prefix of a history it is locked after every longer prefix.
C7_LockMonotonic ==
    \A k \in 0..Len(log) : \A j \in k..Len(log) :
        /\ AfterClient(k).locked => AfterClient(j).locked
        /\ AfterLog(k).locked => AfterLog(j).locked

\* A chargeback locked the account and a record was processed after it.
C7_Witness ==
    \E k \in Steps :
        /\ k < Len(log)
        /\ log[k].type = Chargeback
        /\ ~AfterClient(k - 1).locked /\ AfterClient(k).locked
        /\ ~AfterLog(k - 1).locked /\ AfterLog(k).locked
        /\ log[Len(log)].type = Deposit

\* What a Withdrawal of amt does to an unlocked account: before -> after.
WithdrawalEffect(before, after, amt) ==
    /\ before.available >= amt =>
           after = [before EXCEPT !.available = F32Sub(@, amt),
                                  !.total = F32Sub(@, amt)]
    /\ before.available < amt => after = before
    /\ before.available >= 0 => after.available >= 0

\* C8: on an unlocked account a Withdrawal of a with available >= a takes a
\* from available and from total (as the program subtracts, on f32); with
\* available < a it changes nothing.  It never makes available negative.
C8_Withdrawal ==
    \A k \in Steps :
        log[k].type = Withdrawal =>
            /\ ~AfterClient(k - 1).locked =>
                   WithdrawalEffect(AfterClient(k - 1), AfterClient(k),
                                    Unwrap(log[k].amount))
            /\ ~AfterLog(k - 1).locked =>
                   WithdrawalEffect(AfterLog(k - 1), AfterLog(k),
                                    Unwrap(log[k].amount))

\* One history holds a Withdrawal that was applied and one that was ignored
\* for insufficient funds, under both ledgers.
C8_Witness ==
    \E k \in Steps : \E m \in Steps :
        /\ log[k].type = Withdrawal /\ log[m].type = Withdrawal
        /\ ~AfterClient(k - 1).locked /\ ~AfterLog(k - 1).locked
        /\ AfterClient(k - 1).available >= Unwrap(log[k].amount)
        /\ AfterLog(k - 1).available >= Unwrap(log[k].amount)
        /\ AfterClient(k).total < AfterClient(k - 1).total
        /\ AfterLog(k).total < AfterLog(k - 1).total
        /\ ~AfterClient(m - 1).locked /\ ~AfterLog(m - 1).locked
        /\ AfterClient(m - 1).available < Unwrap(log[m].amount)
        /\ AfterLog(m - 1).available < Unwrap(log[m].amount)

\* C9: Dispute then Resolve is a round trip.  For an earlier Deposit or
\* Withdrawal with no open dispute, a Dispute immediately followed by a
\* Resolve of the same tx id gives back the account state before the Dispute.
C9_RoundTrip ==
    \A k \in Steps :
        (/\ k < Len(log)
         /\ log[k].type = Dispute
         /\ log[k + 1].type = Resolve /\ log[k + 1].tx = log[k].tx
         /\ SeenBefore(k - 1, log[k].tx)
         /\ DisputeStatus(k - 1, log[k].tx) # "Disputed") =>
            /\ ~AfterClient(k - 1).locked =>
                   AfterClient(k + 1) = AfterClient(k - 1)
            /\ ~AfterLog(k - 1).locked => AfterLog(k + 1) = AfterLog(k - 1)

\* The records of the input stream that carry client id c, in arrival order.
OwnRecords(c) ==
    LET Mine(r) == r.client = c
    IN  SelectSeq(input, Mine)

---------------------------------------------------------------------------
(* C11..C20. *)

\* The client ids of the records read so far.
SeenClients == {input[i].client : i \in 1..Len(input)}

DisputedBefore(k, tx) ==
    \E i \in 1..k : log[i].type = Dispute /\ log[i].tx = tx

\* C12: a Resolve or Chargeback that stands in the history before the
\* Dispute of its tx id is ignored, even though the Dispute follows later:
\* the record changes nothing, and Deposit(tx, a), Resolve(tx) or
\* Chargeback(tx), Dispute(tx) ends with available 0, held a, total a,
\* unlocked.
C12_BeforeDispute ==
    /\ \A k \in Steps :
           (/\ log[k].type \in {Resolve, Chargeback}
            /\ ~DisputedBefore(k - 1, log[k].tx)
            /\ \E j \in Steps : j > k /\ log[j].type = Dispute
                                      /\ log[j].tx = log[k].tx) =>
               /\ AfterClient(k) = AfterClient(k - 1)
               /\ AfterLog(k) = AfterLog(k - 1)
    /\ (/\ Len(log) >= 3
        /\ log[1].type = Deposit
        /\ log[2].type \in {Resolve, Chargeback} /\ log[2].tx = log[1].tx
        /\ log[3].type = Dispute /\ log[3].tx = log[1].tx) =>
           LET a == Unwrap(log[1].amount)
               expected == [id |-> TestClient, available |-> 0, held |-> a,
                            total |-> a, locked |-> FALSE]
           IN  AfterClient(3) = expected /\ AfterLog(3) = expected

\* C13: the two ways of closing a dispute exclude each other.  After
\* Deposit, Dispute, Chargeback of a tx id a later Resolve of it changes
\* nothing; after Deposit, Dispute, Resolve of a tx id a later Chargeback
\* of it changes nothing and does not lock the account.
C13_ExclusiveClose ==
    \A k \in Steps :
        LET t == log[k]
        IN  (/\ SeenBefore(k - 1, t.tx)
             /\ Original(t.tx).type = Deposit
             /\ \/ t.type = Resolve
                   /\ DisputeStatus(k - 1, t.tx) = "Chargedback"
                \/ t.type = Chargeback
                   /\ DisputeStatus(k - 1, t.tx) = "Resolved") =>
                /\ AfterClient(k) = AfterClient(k - 1)
                /\ AfterLog(k) = AfterLog(k - 1)

\* What the Chargeback of an open dispute does: before -> after, for an
\* original of the given kind and amount.
ChargebackEffect(before, after, kind, amt) ==
    after = IF kind = Deposit
            THEN [before EXCEPT !.held = F32Sub(@, amt),
                                !.total = F32Sub(@, amt),
                                !.locked = TRUE]
            ELSE [before EXCEPT !.held = F32Add(@, amt),
                                !.total = F32Add(@, amt),
                                !.locked = TRUE]

\* C14: the Chargeback of an open dispute.  When the original is a Deposit
\* of a, held and total each decrease by a; when it is a Withdrawal of a,
\* held and total each increase by a; available is unchanged and the
\* account becomes locked in both cases.
C14_Chargeback ==
    \A k \in Steps :
        LET t == log[k]
        IN  (/\ t.type = Chargeback
             /\ DisputeStatus(k - 1, t.tx) = "Disputed") =>
                /\ ~AfterClient(k - 1).locked =>
                       ChargebackEffect(AfterClient(k - 1), AfterClient(k),
                                        Original(t.tx).type, ReferredAmount(k))
                /\ ~AfterLog(k - 1).locked =>
                       ChargebackEffect(AfterLog(k - 1), AfterLog(k),
                                        Original(t.tx).type, ReferredAmount(k))

\* What the Dispute of an undisputed transaction does: before -> after,
\* for an original of the given kind and amount.
DisputeEffect(before, after, kind, amt) ==
    after = IF kind = Deposit
            THEN [before EXCEPT !.available = F32Sub(@, amt),
                                !.held = F32Add(@, amt)]
            ELSE [before EXCEPT !.available = F32Add(@, amt),
                                !.held = F32Sub(@, amt)]

\* C15: the Dispute of an undisputed earlier transaction is asymmetric in
\* the original's kind.  For a Deposit of a, available decreases by a and
\* held increases by a; for a Withdrawal of a, available increases by a and
\* held decreases by a (it may become negative); total and locked are
\* unchanged in both cases.
C15_Dispute ==
    \A k \in Steps :
        LET t == log[k]
        IN  (/\ t.type = Dispute
             /\ SeenBefore(k - 1, t.tx)
             /\ DisputeStatus(k - 1, t.tx) = "None") =>
                /\ ~AfterClient(k - 1).locked =>
                       DisputeEffect(AfterClient(k - 1), AfterClient(k),
                                     Original(t.tx).type, ReferredAmount(k))
                /\ ~AfterLog(k - 1).locked =>
                       DisputeEffect(AfterLog(k - 1), AfterLog(k),
                                     Original(t.tx).type, ReferredAmount(k))

\* One history holds the first Dispute of a Withdrawal, which leaves held
\* negative, and the first Dispute of a Deposit, under both ledgers.
C15_Witness ==
    \E k \in Steps : \E m \in Steps :
        /\ log[k].type = Dispute /\ log[m].type = Dispute
        /\ SeenBefore(k - 1, log[k].tx) /\ SeenBefore(m - 1, log[m].tx)
        /\ DisputeStatus(k - 1, log[k].tx) = "None"
        /\ DisputeStatus(m - 1, log[m].tx) = "None"
        /\ Original(log[k].tx).type = Withdrawal
        /\ Original(log[m].tx).type = Deposit
        /\ ~AfterClient(k - 1).locked /\ ~AfterLog(k - 1).locked
        /\ ~AfterClient(m - 1).locked /\ ~AfterLog(m - 1).locked
        /\ AfterClient(k).held < 0 /\ AfterLog(k).held < 0
        /\ AfterClient(m).held > AfterClient(m - 1).held
        /\ AfterLog(m).held > AfterLog(m - 1).held

\* C16: a Dispute, Resolve or Chargeback whose tx id occurs on no Deposit
\* or Withdrawal anywhere in the client's history (it may occur on other
\* Dispute, Resolve or Chargeback records) leaves available, held, total
\* and locked unchanged; the handler returns the state it was given.
C16_UnknownTx ==
    \A k \in Steps :
        (log[k].type \in References /\ ~SeenBefore(Len(log), log[k].tx)) =>
            /\ AfterClient(k) = AfterClient(k - 1)
            /\ AfterLog(k) = AfterLog(k - 1)

\* After a Deposit, a Dispute, a Resolve and a Chargeback of a tx id that
\* no Deposit or Withdrawal carries have been processed.
C16_Witness ==
    /\ Len(log) = 4
    /\ log[1].type = Deposit
    /\ log[2].type = Dispute /\ log[3].type = Resolve
    /\ log[4].type = Chargeback
    /\ \A k \in 2..4 : log[k].tx = log[2].tx
    /\ ~SeenBefore(Len(log), log[2].tx)
    /\ AfterClient(4) = AfterClient(1) /\ AfterLog(4) = AfterLog(1)
    /\ AfterLog(4).available = Unwrap(log[1].amount)

\* The fields a record of the given kind leaves alone: before -> after.
Frame(kind, before, after) ==
    /\ after.id = before.id
    /\ kind \in {Deposit, Withdrawal} =>
           after.held = before.held /\ after.locked = before.locked
    /\ kind \in {Dispute, Resolve} =>
           after.total = before.total /\ after.locked = before.locked
    /\ kind = Chargeback => after.available = before.available

\* C17: frame conditions per kind.  Deposit and Withdrawal never change
\* held or locked; Dispute and Resolve never change total or locked;
\* Chargeback never changes available; no record changes the account's
\* client id.
C17_Frame ==
    \A k \in Steps :
        /\ Frame(log[k].type, AfterClient(k - 1), AfterClient(k))
        /\ Frame(log[k].type, AfterLog(k - 1), AfterLog(k))

\* A Deposit, a Withdrawal, a Dispute and a Chargeback have each changed
\* the account state, under both ledgers.
C17_Witness ==
    /\ Len(log) = 4
    /\ log[1].type = Deposit /\ log[2].type = Withdrawal
    /\ log[3].type = Dispute /\ log[4].type = Chargeback
    /\ \A k \in Steps :
           /\ AfterClient(k) # AfterClient(k - 1)
           /\ AfterLog(k) # AfterLog(k - 1)

\* Every record of client c in the input is one the ledger ignores on a
\* fresh account: a Withdrawal (no funds), or a Dispute, Resolve or
\* Chargeback of a tx id that none of c's Deposits or Withdrawals carries.
OnlyNoOps(c) ==
    LET own == OwnRecords(c)
    IN  \A i \in 1..Len(own) :
            /\ own[i].type # Deposit
            /\ own[i].type \in References =>
                   ~\E j \in 1..Len(own) :
                        /\ own[j].type \in {Deposit, Withdrawal}
                        /\ own[j].tx = own[i].tx

\* C18: every client id that occurs in the input yields exactly one output
\* account state, which carries that id and is computed from a fresh state
\* (all balances 0, unlocked): a client whose records are all ignored is
\* still output, with all-zero balances and locked = false.
C18_OneStatePerClient ==
    pc = "done" =>
        /\ DOMAIN out = SeenClients
        /\ \A c \in SeenClients :
               /\ Cardinality({k \in DOMAIN out : out[k].id = c}) = 1
               /\ out[c].id = c
               /\ OnlyNoOps(c) => out[c] = NewClientState(c)

\* The output is written for two clients: one whose only record is a
\* Dispute of an unknown tx id, one with a Deposit.
C18_Witness ==
    /\ pc = "done"
    /\ Len(input) = 2
    /\ input[1].client # input[2].client
    /\ input[1].type = Dispute /\ input[2].type = Deposit
    /\ out[input[1].client] = NewClientState(input[1].client)
    /\ out[input[2].client].available = input[2].amount

\* What the open dispute of a tx id contributes to held after k records:
\* +amount for a disputed Deposit, -amount for a disputed Withdrawal, and
\* nothing when its dispute is not open.
HeldFor(k, tx) ==
    IF DisputeStatus(k, tx) # "Disputed" THEN 0
    ELSE IF Original(tx).type = Deposit
         THEN Unwrap(Original(tx).amount)
         ELSE -Unwrap(Original(tx).amount)

RECURSIVE OpenHeld(_, _)
\* The sum of HeldFor over a set of tx ids.
OpenHeld(k, ids) ==
    IF ids = {} THEN 0
    ELSE LET tx == Min(ids)
         IN  HeldFor(k, tx) + OpenHeld(k, ids \ {tx})

\* C19: held reflects exactly the open disputes.  After every prefix of a
\* history with unique Deposit/Withdrawal tx ids (taken up to the record
\* that locks the account), held is the sum over the tx ids whose dispute
\* is open of +amount for a Deposit and -amount for a Withdrawal; held is
\* 0 whenever no dispute is open.
C19_HeldIsOpenDisputes ==
    \A k \in 0..Len(log) :
        /\ (k = 0 \/ ~AfterClient(k - 1).locked) =>
               AfterClient(k).held = OpenHeld(k, TxIds)
        /\ (k = 0 \/ ~AfterLog(k - 1).locked) =>
               AfterLog(k).held = OpenHeld(k, TxIds)

\* Among the first k records stands a Chargeback of a tx id whose dispute
\* (of an earlier Deposit or Withdrawal) was open when it arrived.
ChargedBack(k) ==
    \E i \in 1..k :
        /\ log[i].type = Chargeback
        /\ DisputeStatus(i - 1, log[i].tx) = "Disputed"

\* C20: locking has a single cause.  The account is locked after a prefix
\* of its history if and only if the prefix holds a Chargeback of an open
\* dispute of an earlier Deposit or Withdrawal; Deposit, Withdrawal,
\* Dispute, Resolve and ignored Chargebacks never lock the account.
C20_LockCause ==
    \A k \in 0..Len(log) :
        /\ AfterClient(k).locked <=> ChargedBack(k)
        /\ AfterLog(k).locked <=> ChargedBack(k)

---------------------------------------------------------------------------
(* C21. *)

\* No Dispute, Resolve or Chargeback of the tx id stands among the first k
\* records.
Unreferenced(k, tx) ==
    ~\E i \in 1..k : log[i].type \in References /\ log[i].tx = tx

\* The Dispute of a Deposit of amt on an account whose available is below
\* amt, and the Chargeback that follows it: before -> mid -> after.
OverdrawnDispute(before, mid, amt) ==
    /\ mid = [before EXCEPT !.available = F32Sub(@, amt),
                            !.held = F32Add(@, amt)]
    /\ mid.available < 0

OverdrawnChargeback(mid, after, amt) ==
    /\ after = [mid EXCEPT !.held = F32Sub(@, amt),
                           !.total = F32Sub(@, amt),
                           !.locked = TRUE]
    /\ mid.total < amt => after.total < 0

\* C21: the Dispute of an earlier Deposit is applied without any
\* sufficient-funds check.  When part of the deposited amount has been
\* withdrawn already (available is below the deposit's amount), the first
\* Dispute of the Deposit still moves the full amount to held and available
\* becomes negative; the Chargeback that follows takes the full amount
\* from held and total, which leaves total negative when it was below the
\* amount.
C21_NoFundsCheckOnDispute ==
    \A k \in Steps :
        LET t == log[k]
        IN  (/\ t.type = Dispute
             /\ SeenBefore(k - 1, t.tx)
             /\ Original(t.tx).type = Deposit
             /\ Unreferenced(k - 1, t.tx)) =>
                LET amt == ReferredAmount(k)
                    closes == /\ k < Len(log)
                              /\ log[k + 1].type = Chargeback
                              /\ log[k + 1].tx = t.tx
                IN  /\ (/\ ~AfterClient(k - 1).locked
                        /\ AfterClient(k - 1).available < amt) =>
                           /\ OverdrawnDispute(AfterClient(k - 1),
                                               AfterClient(k), amt)
                           /\ closes => OverdrawnChargeback(
                                  AfterClient(k), AfterClient(k + 1), amt)
                    /\ (/\ ~AfterLog(k - 1).locked
                        /\ AfterLog(k - 1).available < amt) =>
                           /\ OverdrawnDispute(AfterLog(k - 1),
                                               AfterLog(k), amt)
                           /\ closes => OverdrawnChargeback(
                                  AfterLog(k), AfterLog(k + 1), amt)

\* Deposit, a Withdrawal that was applied, the Dispute of the Deposit and
\* its Chargeback: available is negative after the Dispute and total is
\* negative after the Chargeback, under both ledgers.
C21_Witness ==
    /\ Len(log) = 4
    /\ log[1].type = Deposit /\ log[2].type = Withdrawal
    /\ log[3].type = Dispute /\ log[3].tx = log[1].tx
    /\ log[4].type = Chargeback /\ log[4].tx = log[1].tx
    /\ AfterClient(2).total < AfterClient(1).total
    /\ AfterLog(2).total < AfterLog(1).total
    /\ AfterClient(3).available < 0 /\ AfterLog(3).available < 0
    /\ AfterClient(3).held = Unwrap(log[1].amount)
    /\ AfterLog(3).held = Unwrap(log[1].amount)
    /\ AfterClient(4).total < 0 /\ AfterLog(4).total < 0
    /\ AfterClient(4).locked /\ AfterLog(4).locked

===========================================================================
